---- MODULE Spec2Model ----
(***************************************************************************)
(* Model of api/index.py: the request handlers of the anonymous chat-room  *)
(* service over the two collections `rooms` and `messages`.                *)
(*                                                                         *)
(* Strings are sequences of one-character strings, so that str.upper(),    *)
(* str(ObjectId) and ObjectId(str) are computed character by character.    *)
(* An ObjectId is a natural number drawn from one process-wide counter.    *)
(* datetime.now() is the wall clock: an input, not monotonic.              *)
(***************************************************************************)
EXTENDS Integers, Sequences, FiniteSets, TLC

VARIABLES
  rooms,      \* rooms_collection: documents in insertion (natural) order
  messages,   \* messages_collection: documents in insertion (natural) order
  nextId,     \* the ObjectId generator of the driver
  creators,   \* create_room calls in flight: position and locals of each
  last,       \* the response of the call that completed last
  insertLog,  \* history: per inserted room, what its call had observed
  deleted     \* history: the ids delete_message has removed

vars == <<rooms, messages, nextId, creators, last, insertLog, deleted>>

-----------------------------------------------------------------------------
(* Bounds of the model *)

NumCreators == 2    \* request threads that may run create_room at once
MaxRooms == 2       \* create_room calls in all
NumDraws == 2       \* outcomes of the random generator that are explored
MaxMsgs == 2        \* send_message calls in all

CodeLen == 6
OidLen == 2 * 12    \* an ObjectId is 12 bytes, two hex digits each
HTTP_OK == 200
HTTP_BAD_REQUEST == 400
HTTP_NOT_FOUND == 404

Procs == 1..NumCreators
Draws == 1..NumDraws
Times == 0..1       \* wall-clock readings of send_message: equal and
                    \* out-of-order ones occur
RoomTimes == {0}    \* wall-clock readings of create_room: no handler reads
                    \* createdAt
HostIds == {"h1", "h2"}
Texts == {"hi", "yo"}

-----------------------------------------------------------------------------
(* Characters and strings *)

UpperLetters ==
  <<"A","B","C","D","E","F","G","H","I","J","K","L","M",
    "N","O","P","Q","R","S","T","U","V","W","X","Y","Z">>
LowerLetters ==
  <<"a","b","c","d","e","f","g","h","i","j","k","l","m",
    "n","o","p","q","r","s","t","u","v","w","x","y","z">>
HexDigits ==
  <<"0","1","2","3","4","5","6","7","8","9","a","b","c","d","e","f">>
HexDigitsUpper ==
  <<"0","1","2","3","4","5","6","7","8","9","A","B","C","D","E","F">>

\* the upper-case form of each lower-case letter
ToUpper ==
  [c \in {LowerLetters[i] : i \in 1..Len(LowerLetters)} |->
     UpperLetters[CHOOSE i \in 1..Len(LowerLetters) : LowerLetters[i] = c]]

\* the lower-case form of each upper-case letter
ToLower ==
  [c \in {UpperLetters[i] : i \in 1..Len(UpperLetters)} |->
     LowerLetters[CHOOSE i \in 1..Len(UpperLetters) : UpperLetters[i] = c]]

\* str.upper() on one character
UpperChar(c) == IF c \in DOMAIN ToUpper THEN ToUpper[c] ELSE c

\* str.upper()
upper(s) == [k \in 1..Len(s) |-> UpperChar(s[k])]

\* str.lower() on one character and on a string (used to build inputs)
LowerChar(c) == IF c \in DOMAIN ToLower THEN ToLower[c] ELSE c

lower(s) == [k \in 1..Len(s) |-> LowerChar(s[k])]

\* a mixed-case variant: odd positions lower case, even positions unchanged
mixed(s) == [k \in 1..Len(s) |-> IF k % 2 = 1 THEN LowerChar(s[k]) ELSE s[k]]

-----------------------------------------------------------------------------
(* generate_room_code *)

\* string.ascii_uppercase + string.digits: with O and 0
charsWithO ==
  <<"A","B","C","D","E","F","G","H","I","J","K","L","M","N","O","P","Q",
    "R","S","T","U","V","W","X","Y","Z","0","1","2","3","4","5","6","7",
    "8","9">>

chars ==
  <<"A","B","C","D","E","F","G","H","I","J","K","L","M","N","P","Q",
    "R","S","T","U","V","W","X","Y","Z","1","2","3","4","5","6","7",
    "8","9">>

\* The d-th explored outcome of the six random.choice calls: the index
\* drawn at each position.  Outcomes spread over letters and digits.
Pick(d) == [k \in 1..CodeLen |-> (((d - 1) + (k - 1) * 7) % Len(chars)) + 1]

generate_room_code(d) == [k \in 1..CodeLen |-> chars[Pick(d)[k]]]

-----------------------------------------------------------------------------
(* ObjectId *)

\* 16^p for the digits an id of the model reaches
Pow16 == [p \in 0..5 |-> 16 ^ p]

\* the hex digit of weight 16^p of id n (ids of the model are below 16^6)
OidDigit(n, p) == IF p > 5 THEN 0 ELSE (n \div Pow16[p]) % 16

\* str(ObjectId): 24 lower-case hex digits
ObjectIdStr(n) == [k \in 1..OidLen |-> HexDigits[OidDigit(n, OidLen - k) + 1]]

\* the value of each hex digit, in either case (bytes.fromhex)
HexVal ==
  [c \in {HexDigits[i] : i \in 1..16} \cup {HexDigitsUpper[i] : i \in 1..16} |->
     (CHOOSE i \in 1..16 : HexDigits[i] = c \/ HexDigitsUpper[i] = c) - 1]

IsHex(c) == c \in DOMAIN HexVal

\* ObjectId(s) raises unless s is 24 hex digits
ObjectIdValid(s) == Len(s) = OidLen /\ \A k \in 1..Len(s) : IsHex(s[k])

\* the number the first k digits of s denote
RECURSIVE HexValue(_, _)
HexValue(s, k) ==
  IF k = 0 THEN 0 ELSE HexValue(s, k - 1) * 16 + HexVal[s[k]]

\* ObjectId(s) for a valid s
ObjectId(s) == HexValue(s, Len(s))

-----------------------------------------------------------------------------
(* Inputs *)

\* room_code arguments of join_room: each explored code, the lower-case and
\* mixed-case forms of the first, and one string that is no code
RoomCodeInputs ==
  {generate_room_code(d) : d \in Draws}
  \cup {lower(generate_room_code(1)), mixed(generate_room_code(1))}
  \cup {<<"z", "z", "9">>}

\* room_code arguments of send_message and get_messages: the first explored
\* code in three cases, and one string that is no code
MsgRoomInputs ==
  {generate_room_code(1), lower(generate_room_code(1)),
   mixed(generate_room_code(1)), <<"z", "z", "9">>}

\* ids the message handlers are called with: those send_message hands out
\* after one create_room call, and one never handed out
OidRange == 11..(11 + MaxMsgs)

\* message_id arguments: str(ObjectId) of each id, the first in upper-case
\* hex too, and strings ObjectId() rejects
MessageIdInputs ==
  {ObjectIdStr(n) : n \in OidRange}
  \cup {upper(ObjectIdStr(11))}
  \cup {<<"a", "b", "c">>, [ObjectIdStr(11) EXCEPT ![1] = "g"]}

\* try: ObjectId(s) / except: <<id>>, or <<>> when it raises
ParseObjectId(s) == IF ObjectIdValid(s) THEN <<ObjectId(s)>> ELSE <<>>

\* ParseObjectId, computed once for the arguments the model calls it with
ParsedInputs == [s \in MessageIdInputs |-> ParseObjectId(s)]

TryObjectId(s) ==
  IF s \in DOMAIN ParsedInputs THEN ParsedInputs[s] ELSE ParseObjectId(s)


-----------------------------------------------------------------------------
(* The collections *)

\* indices of the documents of coll that match {"room_code": code}
MatchCode(coll, code) == {i \in 1..Len(coll) : coll[i].room_code = code}

\* indices of the documents of coll that match {"_id": id}
MatchId(coll, id) == {i \in 1..Len(coll) : coll[i]._id = id}

Min(S) == CHOOSE x \in S : \A y \in S : x <= y

\* find_one that finds nothing
find_oneNever(coll, code) == <<>>

\* Collection.find_one({"room_code": code}): <<>> for None, else <<document>>
find_one(coll, code) ==
  IF MatchCode(coll, code) = {} THEN <<>>
  ELSE <<coll[Min(MatchCode(coll, code))]>>

\* the sequence without its i-th element
RemoveAt(s, i) == [k \in 1..(Len(s) - 1) |-> IF k < i THEN s[k] ELSE s[k + 1]]

-----------------------------------------------------------------------------
(* State after construction *)

Idle == [pc |-> "idle", hostId |-> "", new_code |-> <<>>, start |-> 0, seen |-> 0]

NoCall == [op |-> "none", req |-> <<>>, status |-> 0, body |-> <<>>, g |-> <<>>]

Init ==
  /\ rooms = <<>>
  /\ messages = <<>>
  /\ nextId = 10
  /\ creators = [p \in Procs |-> Idle]
  /\ last = NoCall
  /\ insertLog = <<>>
  /\ deleted = {}

\* create_room calls that have started and not returned
InFlight == {p \in Procs : creators[p].pc # "idle"}

-----------------------------------------------------------------------------
(* create_room, one action per step between two accesses of the store *)

\* line 107: the call starts and draws its first code
CreateBegin(p, h, d) ==
  /\ creators[p].pc = "idle"
  /\ Len(rooms) + Cardinality(InFlight) < MaxRooms
  /\ creators' = [creators EXCEPT ![p] =
       [pc |-> "check", hostId |-> h, new_code |-> generate_room_code(d),
        start |-> Len(rooms), seen |-> 0]]
  /\ UNCHANGED <<rooms, messages, nextId, last, insertLog, deleted>>

\* lines 109-110: one evaluation of the loop condition, and the loop body
CreateCheck(p, d) ==
  /\ creators[p].pc = "check"
  /\ IF find_one(rooms, creators[p].new_code) # <<>>
     THEN creators' = [creators EXCEPT ![p].new_code = generate_room_code(d)]
     ELSE creators' = [creators EXCEPT ![p].pc = "insert", ![p].seen = Len(rooms)]
  /\ UNCHANGED <<rooms, messages, nextId, last, insertLog, deleted>>

\* lines 112-118: build the Room, insert its dict, return the Room
CreateInsert(p, t) ==
  /\ creators[p].pc = "insert"
  /\ LET c == creators[p]
         new_room == [room_code |-> c.new_code, hostId |-> c.hostId, createdAt |-> t]
     IN /\ rooms' = Append(rooms,
               [_id |-> nextId, room_code |-> new_room.room_code,
                hostId |-> new_room.hostId, createdAt |-> new_room.createdAt])
        /\ nextId' = nextId + 1
        /\ insertLog' = Append(insertLog, [start |-> c.start, seen |-> c.seen])
        /\ last' = [op |-> "create_room", req |-> [hostId |-> c.hostId],
                    status |-> HTTP_OK, body |-> new_room,
                    g |-> [start |-> c.start, seen |-> c.seen]]
  /\ creators' = [creators EXCEPT ![p] = Idle]
  /\ UNCHANGED <<messages, deleted>>

-----------------------------------------------------------------------------
(* join_room, lines 120-128 *)

JoinRoom(room_code) ==
  /\ LET room == find_one(rooms, upper(room_code))
     IN last' = IF room = <<>>
                THEN [op |-> "join_room", req |-> [room_code |-> room_code],
                      status |-> HTTP_NOT_FOUND,
                      body |-> [detail |-> "Room not found"], g |-> <<>>]
                ELSE [op |-> "join_room", req |-> [room_code |-> room_code],
                      status |-> HTTP_OK,
                      body |-> [room[1] EXCEPT !._id = ObjectIdStr(@)], g |-> <<>>]
  /\ UNCHANGED <<rooms, messages, nextId, creators, insertLog, deleted>>

-----------------------------------------------------------------------------
(* send_message, lines 130-140 *)

\* the document built without .upper()
message_dataRaw(room_code, text, t) ==
  [room_code |-> room_code, text |-> text, isCompleted |-> FALSE, timestamp |-> t]

\* lines 133-138: the document built from the request
message_data(room_code, text, t) ==
  [room_code |-> upper(room_code), text |-> text, isCompleted |-> FALSE,
   timestamp |-> t]

SendMessage(room_code, text, t) ==
  /\ Len(messages) + Cardinality(deleted) < MaxMsgs
  /\ LET data == message_data(room_code, text, t)
     IN /\ messages' = Append(messages,
               [_id |-> nextId, room_code |-> data.room_code,
                text |-> data.text, isCompleted |-> data.isCompleted,
                timestamp |-> data.timestamp])
        /\ nextId' = nextId + 1
        /\ last' = [op |-> "send_message",
                    req |-> [room_code |-> room_code, text |-> text],
                    status |-> HTTP_OK,
                    body |-> [status |-> "ok", message_id |-> ObjectIdStr(nextId)],
                    g |-> [timestamp |-> t]]
  /\ UNCHANGED <<rooms, creators, insertLog, deleted>>

-----------------------------------------------------------------------------
(* get_messages, lines 142-153 *)

\* the documents at I in natural order
NaturalOrder(coll, I) ==
  {o \in [1..Cardinality(I) -> I] : \A a, b \in 1..Cardinality(I) : a < b => o[a] < o[b]}

\* the orders .sort("timestamp", 1) may return the documents at I in:
\* ascending by timestamp, documents of equal timestamp in any order
SortedOrders(coll, I) ==
  {o \in [1..Cardinality(I) -> I] :
     /\ \A a, b \in 1..Cardinality(I) : a # b => o[a] # o[b]
     /\ \A a, b \in 1..Cardinality(I) :
          a < b => coll[o[a]].timestamp <= coll[o[b]].timestamp}

\* lines 150-151 and the response model: _id as a string
MessageOut(msg) == [msg EXCEPT !._id = ObjectIdStr(@)]

GetMessages(room_code) ==
  /\ \E o \in SortedOrders(messages, MatchCode(messages, upper(room_code))) :
       last' = [op |-> "get_messages", req |-> [room_code |-> room_code],
                status |-> HTTP_OK,
                body |-> [k \in 1..Len(o) |-> MessageOut(messages[o[k]])],
                g |-> <<>>]
  /\ UNCHANGED <<rooms, messages, nextId, creators, insertLog, deleted>>

-----------------------------------------------------------------------------
(* toggle_message, lines 155-169 *)

\* history: the call repeats the call before it, which succeeded
Again(op, req) == last.op = op /\ last.status = HTTP_OK /\ last.req = req

\* history: the id had been deleted before the call
Gone(oid) == oid # <<>> /\ oid[1] \in deleted

\* update_one that negates the field instead of setting it
update_oneFlip(coll, id, value) ==
  IF MatchId(coll, id) = {} THEN [coll |-> coll, matched_count |-> 0]
  ELSE [coll |-> [coll EXCEPT ![Min(MatchId(coll, id))].isCompleted = ~@],
        matched_count |-> 1]

\* update_one with upsert: a document is inserted when none matches
update_oneUpsert(coll, id, value) ==
  IF MatchId(coll, id) = {}
  THEN [coll |-> Append(coll, [_id |-> id, room_code |-> <<>>, text |-> "",
                               isCompleted |-> value, timestamp |-> 0]),
        matched_count |-> 0]
  ELSE [coll |-> [coll EXCEPT ![Min(MatchId(coll, id))].isCompleted = value],
        matched_count |-> 1]

\* update_one that sets the field in every document once one matches
update_oneAll(coll, id, value) ==
  IF MatchId(coll, id) = {} THEN [coll |-> coll, matched_count |-> 0]
  ELSE [coll |-> [i \in 1..Len(coll) |-> [coll[i] EXCEPT !.isCompleted = value]],
        matched_count |-> 1]

\* Collection.update_one({"_id": id}, {"$set": {"isCompleted": value}}):
\* the collection after it, and result.matched_count
update_one(coll, id, value) ==
  IF MatchId(coll, id) = {} THEN [coll |-> coll, matched_count |-> 0]
  ELSE [coll |-> [coll EXCEPT ![Min(MatchId(coll, id))].isCompleted = value],
        matched_count |-> 1]

\* delete_one that removes the first document whatever the filter
delete_oneFirst(coll, id) ==
  IF coll = <<>> THEN [coll |-> coll, deleted_count |-> 0]
  ELSE [coll |-> Tail(coll), deleted_count |-> 1]

\* Collection.delete_one({"_id": id}): the collection after it, and
\* result.deleted_count
delete_one(coll, id) ==
  IF MatchId(coll, id) = {} THEN [coll |-> coll, deleted_count |-> 0]
  ELSE [coll |-> RemoveAt(coll, Min(MatchId(coll, id))), deleted_count |-> 1]

ToggleMessage(message_id, is_completed) ==
  LET req == [message_id |-> message_id, is_completed |-> is_completed]
      oid == TryObjectId(message_id)
      g == [again |-> Again("toggle_message", req), gone |-> Gone(oid), oid |-> oid]
  IN
  IF oid = <<>>
  THEN /\ last' = [op |-> "toggle_message", req |-> req,
                   status |-> HTTP_BAD_REQUEST,
                   body |-> [detail |-> "Invalid message_id"], g |-> g]
       /\ UNCHANGED <<rooms, messages, nextId, creators, insertLog, deleted>>
  ELSE LET msg_id == oid[1]
           result == update_one(messages, msg_id, is_completed)
       IN /\ messages' = result.coll
          /\ last' = IF result.matched_count = 0
                     THEN [op |-> "toggle_message", req |-> req,
                           status |-> HTTP_NOT_FOUND,
                           body |-> [detail |-> "Message not found"], g |-> g]
                     ELSE [op |-> "toggle_message", req |-> req,
                           status |-> HTTP_OK,
                           body |-> [status |-> "ok"], g |-> g]
          /\ UNCHANGED <<rooms, nextId, creators, insertLog, deleted>>

-----------------------------------------------------------------------------
(* delete_message, lines 171-182 *)

DeleteMessage(message_id) ==
  LET req == [message_id |-> message_id]
      oid == TryObjectId(message_id)
      g == [again |-> Again("delete_message", req), gone |-> Gone(oid), oid |-> oid]
  IN
  IF oid = <<>>
  THEN /\ last' = [op |-> "delete_message", req |-> req,
                   status |-> HTTP_BAD_REQUEST,
                   body |-> [detail |-> "Invalid message_id"], g |-> g]
       /\ UNCHANGED <<rooms, messages, nextId, creators, insertLog, deleted>>
  ELSE LET msg_id == oid[1]
           result == delete_one(messages, msg_id)
       IN /\ messages' = result.coll
          /\ deleted' = IF result.deleted_count = 0 THEN deleted
                        ELSE deleted \cup {msg_id}
          /\ last' = IF result.deleted_count = 0
                     THEN [op |-> "delete_message", req |-> req,
                           status |-> HTTP_NOT_FOUND,
                           body |-> [detail |-> "Message not found"], g |-> g]
                     ELSE [op |-> "delete_message", req |-> req,
                           status |-> HTTP_OK,
                           body |-> [status |-> "ok"], g |-> g]
          /\ UNCHANGED <<rooms, nextId, creators, insertLog>>

-----------------------------------------------------------------------------
(* Specifications *)

NextRooms ==
  \/ \E p \in Procs, h \in HostIds, d \in Draws : CreateBegin(p, h, d)
  \/ \E p \in Procs, d \in Draws : CreateCheck(p, d)
  \/ \E p \in Procs, t \in RoomTimes : CreateInsert(p, t)
  \/ \E rc \in RoomCodeInputs : JoinRoom(rc)

NextMsgs ==
  \/ \E rc \in MsgRoomInputs, text \in Texts, t \in Times : SendMessage(rc, text, t)
  \/ \E rc \in MsgRoomInputs : GetMessages(rc)
  \/ \E mid \in MessageIdInputs, b \in BOOLEAN : ToggleMessage(mid, b)
  \/ \E mid \in MessageIdInputs : DeleteMessage(mid)

Next == NextRooms \/ NextMsgs

\* the whole service
Spec == Init /\ [][Next]_vars

\* the service when only rooms are created and joined, started after no
\* send_message call or after one
InitRooms ==
  /\ rooms = <<>>
  /\ \E n \in 0..1 :
       /\ messages = [k \in 1..n |->
            [_id |-> 10, room_code |-> generate_room_code(1), text |-> "hi",
             isCompleted |-> FALSE, timestamp |-> 0]]
       /\ nextId = 10 + n
  /\ creators = [p \in Procs |-> Idle]
  /\ last = NoCall
  /\ insertLog = <<>>
  /\ deleted = {}

RoomSpec == InitRooms /\ [][NextRooms]_vars

\* the service when only messages are handled, started after one
\* create_room call
InitMsgs ==
  /\ rooms = <<[_id |-> 10, room_code |-> generate_room_code(1),
                hostId |-> "h1", createdAt |-> 0]>>
  /\ insertLog = <<[start |-> 0, seen |-> 0]>>
  /\ nextId = 11
  /\ messages = <<>>
  /\ creators = [p \in Procs |-> Idle]
  /\ last = NoCall
  /\ deleted = {}

MsgSpec == InitMsgs /\ [][NextMsgs]_vars

-----------------------------------------------------------------------------
(* Properties of create_room and join_room *)

\* the rooms collection holds two documents with the same room_code
DuplicateCodes ==
  \E i, j \in 1..Len(rooms) : i < j /\ rooms[i].room_code = rooms[j].room_code

\* C1: in every reachable state no two rooms of the rooms collection have
\* the same room_code.
C1_UniqueRoomCodes ==
  \A i, j \in 1..Len(rooms) : i # j => rooms[i].room_code # rooms[j].room_code

\* C2: two rooms with the same room_code arise from the interleaving in which
\* both calls ran their existence check before either inserted, and in no
\* other way: the call that inserted second had found no room with the code
\* when fewer rooms were stored than the position of the first.
C2_DuplicateOnlyByRace ==
  \A i, j \in 1..Len(rooms) :
    (i < j /\ rooms[i].room_code = rooms[j].room_code) =>
      (insertLog[i].seen < i /\ insertLog[j].seen < i)

\* two calls drew the same code, both checked before either inserted, and
\* both inserted
C2_RaceReached ==
  \E i, j \in 1..Len(rooms) :
    /\ i < j
    /\ rooms[i].room_code = rooms[j].room_code
    /\ insertLog[i].seen < i
    /\ insertLog[j].seen < i

\* the symbols a room code may hold: A-Z without O, and 1-9
AllowedCodeChars ==
  ({UpperLetters[i] : i \in 1..Len(UpperLetters)} \ {"O"})
  \cup {"1", "2", "3", "4", "5", "6", "7", "8", "9"}

\* C3: the room_code a create_room call returns has exactly 6 characters,
\* each a letter other than O or a digit 1-9, and no room stored when the
\* call started had that code, whatever other calls ran meanwhile.
C3_ReturnedCode ==
  last.op = "create_room" =>
    /\ Len(last.body.room_code) = 6
    /\ \A k \in 1..Len(last.body.room_code) :
         last.body.room_code[k] \in AllowedCodeChars
    /\ \A i \in 1..last.g.start : rooms[i].room_code # last.body.room_code

\* a call returned after another call had inserted a room during it, and a
\* second room with the returned code is stored
C3_ReturnedUnderConcurrency ==
  /\ last.op = "create_room"
  /\ last.g.start < Len(rooms) - 1
  /\ Cardinality(MatchCode(rooms, last.body.room_code)) > 1

\* the response body join_room gives for a stored room
RoomOut(room) == [room EXCEPT !._id = ObjectIdStr(@)]

\* C4: join_room with any case variant of the code of a stored room returns
\* that room, and join_room with a code whose upper-case form matches no
\* room answers 404.
C4_JoinReturnsThatRoom ==
  last.op = "join_room" =>
    LET code == upper(last.req.room_code)
    IN IF \E i \in 1..Len(rooms) : rooms[i].room_code = code
       THEN /\ last.status = HTTP_OK
            /\ \A i \in 1..Len(rooms) :
                 rooms[i].room_code = code => last.body = RoomOut(rooms[i])
       ELSE last.status = HTTP_NOT_FOUND

-----------------------------------------------------------------------------
(* Properties of the message handlers *)

\* the stored message with the given id, as get_messages returns it
Returned(msg) == [msg EXCEPT !._id = ObjectIdStr(@)]

\* C5: get_messages(rc) returns exactly the stored messages whose room_code
\* is the upper-case form of rc, each once, with timestamps non-decreasing
\* along the sequence, and succeeds with the empty sequence when none match.
C5_GetMessagesExact ==
  last.op = "get_messages" =>
    LET code == upper(last.req.room_code)
        InRoom == {i \in 1..Len(messages) : messages[i].room_code = code}
    IN /\ last.status = HTTP_OK
       /\ Len(last.body) = Cardinality(InRoom)
       /\ \A i \in InRoom :
            \E k \in 1..Len(last.body) : last.body[k] = Returned(messages[i])
       /\ \A k \in 1..Len(last.body) :
            \E i \in InRoom : last.body[k] = Returned(messages[i])
       /\ \A a, b \in 1..Len(last.body) :
            a < b => last.body[a].timestamp <= last.body[b].timestamp

\* get_messages was called with a lower-case code and returned two messages
\* that are stored in the opposite order of their timestamps
C5_SortedOutOfStoreOrder ==
  /\ last.op = "get_messages"
  /\ last.req.room_code # upper(last.req.room_code)
  /\ Len(last.body) = 2
  /\ Len(messages) = 2
  /\ messages[1].timestamp > messages[2].timestamp

\* C6: toggle_message on the id of a stored message succeeds and leaves its
\* isCompleted equal to the value, whatever it was; and a toggle_message
\* call that repeats the successful call before it (same id, same value)
\* succeeds too and leaves the store as the first call left it.
C6_ToggleIdempotent ==
  [][last'.op = "toggle_message" =>
       /\ (last'.g.oid # <<>> /\ MatchId(messages, last'.g.oid[1]) # {}) =>
            /\ last'.status = HTTP_OK
            /\ \A i \in MatchId(messages', last'.g.oid[1]) :
                 messages'[i].isCompleted = last'.req.is_completed
       /\ last'.g.again =>
            /\ last'.status = HTTP_OK
            /\ messages' = messages
            /\ rooms' = rooms
            /\ \E i \in 1..Len(messages') :
                 /\ <<messages'[i]._id>> = last'.g.oid
                 /\ messages'[i].isCompleted = last'.req.is_completed]_vars

\* the second of two equal toggle calls has returned, the value being TRUE
C6_ToggledTwice ==
  /\ last.op = "toggle_message"
  /\ last.g.again
  /\ last.status = HTTP_OK
  /\ last.req.is_completed

\* C7: once delete_message has removed a message, no message with its id is
\* stored again, no get_messages returns one, and every later toggle_message
\* or delete_message with that id answers 404.
C7_DeletedStaysGone ==
  /\ \A id \in deleted : MatchId(messages, id) = {}
  /\ last.op = "get_messages" =>
       \A k \in 1..Len(last.body), id \in deleted :
         last.body[k]._id # ObjectIdStr(id)
  /\ (last.op \in {"toggle_message", "delete_message"} /\ last.g.gone) =>
       last.status = HTTP_NOT_FOUND

\* a delete of an id that had been deleted before has returned, while
\* another message is still stored
C7_DeletedAgain ==
  /\ last.op = "delete_message"
  /\ last.g.gone
  /\ messages # <<>>

\* the message_id arguments that are well-formed ids: 24 hex digits
WellFormedIds ==
  {s \in MessageIdInputs : Len(s) = 24 /\ \A k \in 1..Len(s) : IsHex(s[k])}

\* C8: toggle_message and delete_message answer 400 when the message_id is
\* not a well-formed id and 404 when it is well formed and matches no
\* stored message, and a call that answers 400 or 404 leaves both
\* collections as they were.
C8_ErrorsLeaveStore ==
  [][last'.op \in {"toggle_message", "delete_message"} =>
       LET s == last'.req.message_id
           wellFormed == s \in WellFormedIds
       IN /\ ~wellFormed =>
               last'.status = HTTP_BAD_REQUEST
          /\ (wellFormed /\ MatchId(messages, TryObjectId(s)[1]) = {}) =>
               last'.status = HTTP_NOT_FOUND
          /\ last'.status \in {HTTP_BAD_REQUEST, HTTP_NOT_FOUND} =>
               (messages' = messages /\ rooms' = rooms)]_vars

\* toggle_message answered 404 for a well-formed id while messages are stored
C8_NotFoundReached ==
  /\ last.op = "toggle_message"
  /\ last.status = HTTP_NOT_FOUND
  /\ last.g.oid # <<>>
  /\ messages # <<>>

\* the upper-case form of a string, by the letters' table alone
UpperCased(s) ==
  [k \in 1..Len(s) |-> IF s[k] \in DOMAIN ToUpper THEN ToUpper[s[k]] ELSE s[k]]

\* C9: send_message succeeds for every room_code, adds exactly one message,
\* with a fresh id, the upper-case form of the room_code, the given text
\* and isCompleted = FALSE, and leaves every stored message and the rooms
\* collection as they were.
C9_SendAddsOne ==
  [][last'.op = "send_message" =>
       /\ last'.status = HTTP_OK
       /\ rooms' = rooms
       /\ Len(messages') = Len(messages) + 1
       /\ SubSeq(messages', 1, Len(messages)) = messages
       /\ LET new == messages'[Len(messages')]
          IN /\ new.room_code = UpperCased(last'.req.room_code)
             /\ new.text = last'.req.text
             /\ new.isCompleted = FALSE
             /\ MatchId(messages, new._id) = {}
             /\ MatchId(rooms, new._id) = {}
             /\ new._id \notin deleted
             /\ last'.body.message_id = ObjectIdStr(new._id)]_vars

\* a message was sent with a lower-case code that matches no room
C9_SentToNoRoom ==
  /\ last.op = "send_message"
  /\ last.status = HTTP_OK
  /\ last.req.room_code # upper(last.req.room_code)
  /\ MatchCode(rooms, upper(last.req.room_code)) = {}
  /\ Len(messages) = 2

\* C10: a successful toggle_message changes nothing but isCompleted of the
\* message with the id; in every step a stored message keeps its room_code,
\* text and timestamp, and its isCompleted changes only in a successful
\* toggle_message on its id.
C10_ToggleFrame ==
  [][/\ \A i \in 1..Len(messages), j \in 1..Len(messages') :
          messages[i]._id = messages'[j]._id =>
            /\ messages'[j].room_code = messages[i].room_code
            /\ messages'[j].text = messages[i].text
            /\ messages'[j].timestamp = messages[i].timestamp
            /\ messages'[j].isCompleted # messages[i].isCompleted =>
                 /\ last'.op = "toggle_message"
                 /\ last'.status = HTTP_OK
                 /\ last'.g.oid = <<messages[i]._id>>
                 /\ messages'[j].isCompleted = last'.req.is_completed
     /\ (last'.op = "toggle_message" /\ last'.status = HTTP_OK) =>
          /\ rooms' = rooms
          /\ Len(messages') = Len(messages)
          /\ \A i \in 1..Len(messages) :
               IF <<messages[i]._id>> = last'.g.oid
               THEN messages'[i] =
                      [messages[i] EXCEPT !.isCompleted = last'.req.is_completed]
               ELSE messages'[i] = messages[i]]_vars

\* a toggle changed isCompleted of one of two stored messages
C10_ToggledOneOfTwo ==
  /\ last.op = "toggle_message"
  /\ last.status = HTTP_OK
  /\ Len(messages) = 2
  /\ \E i, j \in 1..Len(messages) :
       /\ <<messages[i]._id>> = last.g.oid
       /\ messages[i].isCompleted
       /\ ~messages[j].isCompleted

====
